---- MODULE Spec2Model ----
(***************************************************************************)
(* The split tree of the window manager (lib/wm/wm_splitter.c).            *)
(*                                                                         *)
(* The heap of wm_window / wm_splitter structures is the function `win'    *)
(* from node identities (addresses) to records; `wm' is the window         *)
(* manager (main window and focus handle).  Every operation of the source  *)
(* is an operator from a memory record m = [win, wm, ub, ret] to the       *)
(* memory after the call, written statement by statement after the C code. *)
(* Sequences are 1-based in TLA+; every index named i, j, pos below is the *)
(* 0-based index of the C code and children[i] of the code is Child(c, i). *)
(***************************************************************************)
EXTENDS Integers, Sequences, FiniteSets, TLC

(* ---------------------------- bounds ----------------------------------- *)
\* Most panes that exist (not destroyed) at any time.
MaxPanes == 4
\* The terminal: the rectangle of the main window.
ScreenHeight == 12
ScreenWidth == 9

\* Node identities (addresses of wm_window structures); NULL is 0.
MaxNodes == 2 * MaxPanes
Ids == 1..MaxNodes
NULL == 0

WM_HORIZONTAL == "WM_HORIZONTAL"
WM_VERTICAL == "WM_VERTICAL"
Orientations == {WM_HORIZONTAL, WM_VERTICAL}

\* Sizes a caller asks resize for: below every minimum, small, medium,
\* and above every maximum.
ResizeSizes == {0, 3, 6, ScreenHeight + ScreenWidth}

\* win and wm are the split tree, scroller the scroller and input the bytes last
\* handed to it; last is the record of the last call, crashed is set when the
\* process has died.
VARIABLES win, wm, last, crashed, scroller, input
vars == <<win, wm, last, crashed, scroller, input>>

(* ------------------------- C arithmetic -------------------------------- *)
\* Integer division of C: truncation toward zero.
CDiv(a, b) == IF a >= 0 THEN a \div b ELSE -((-a) \div b)

\* (int)(((float) cur / prev) * avail), lines 399-403.  For 0 <= cur <= prev
\* and extents below 22 the single-precision quotient and product round to
\* the exact floor.
FloatScale(cur, prev, avail) == CDiv(cur * avail, prev)

Max(a, b) == IF a >= b THEN a ELSE b
Min(a, b) == IF a <= b THEN a ELSE b

(* ------------------------- the heap ------------------------------------ *)
\* A wm_window that was never allocated, or was freed and is referenced
\* nowhere.  cwindow is the handle of the window's curses canvas and canvas
\* the rectangle <<top, left, height, width>> curses holds for that handle.
NoWindow ==
    [state |-> "none", is_splitter |-> FALSE, orientation |-> "none",
     children |-> <<>>, parent |-> NULL,
     top |-> 0, left |-> 0, real_height |-> 0, real_width |-> 0,
     cwindow |-> NULL, canvas |-> <<0, 0, 0, 0>>, minimum_size |-> <<0, 0>>]

\* children[i] of the C code (0-based).
Child(c, i) == c[i + 1]

Live(m, n) == n # NULL /\ m.win[n].state = "live"

\* Reading a field of a window: a read of a destroyed (freed) window is
\* undefined behaviour, recorded in m.ub.
Deref(m, n) == [m EXCEPT !.ub = m.ub \/ ~Live(m, n)]

Range(s) == {s[k] : k \in 1..Len(s)}

\* The nodes some live structure still points to.
Referenced(m) ==
    {m.wm.main_window, m.wm.focused_window}
    \cup UNION {Range(m.win[n].children) : n \in {x \in Ids : Live(m, x)}}
    \cup {m.win[n].parent : n \in {x \in Ids : Live(m, x)}}

\* malloc: the lowest address that holds no live object and that no live
\* object still points to.
FreeIds(m) == {n \in Ids : ~Live(m, n) /\ n \notin Referenced(m)}
Malloc(m) == CHOOSE n \in FreeIds(m) : \A x \in FreeIds(m) : n <= x

\* Canvas handles (curses WINDOW): the lowest handle no live window holds.
Canvases == 1..(MaxNodes + 1)
FreeCanvases(m) == {c \in Canvases : \A n \in Ids : ~(Live(m, n) /\ m.win[n].cwindow = c)}
NewCanvas(m) == CHOOSE c \in FreeCanvases(m) : \A x \in FreeCanvases(m) : c <= x

(* ------------------ minimum sizes (lines 491-514, 545-553) ------------- *)
\* The minimum_size policy <<height, width>> of the panes: a line of text
\* above a status bar, a column of text beside a gutter.
PanePolicy == <<2, 2>>
PanePolicies == {PanePolicy}

RECURSIVE MinimumSize(_, _), wm_splitter_minimum_size(_, _, _, _)

\* The loop of wm_splitter_minimum_size from child i on, acc = <<*height, *width>>.
wm_splitter_minimum_size(m, sp, i, acc) ==
    IF i >= Len(m.win[sp].children) THEN acc
    ELSE LET c == MinimumSize(m, Child(m.win[sp].children, i))
         IN wm_splitter_minimum_size(m, sp, i + 1,
                IF m.win[sp].orientation = WM_HORIZONTAL
                THEN <<acc[1] + c[1], Max(acc[2], c[2])>>
                ELSE <<Max(acc[1], c[1]), acc[2] + c[2]>>)

\* window->minimum_size(window, &height, &width)
MinimumSize(m, n) ==
    IF m.win[n].is_splitter THEN wm_splitter_minimum_size(m, n, 0, <<0, 0>>)
    ELSE m.win[n].minimum_size

wm_splitter_min_dimension(m, sp, n) ==
    IF m.win[sp].orientation = WM_HORIZONTAL THEN MinimumSize(m, n)[1]
    ELSE MinimumSize(m, n)[2]

\* get_dimension / get_position (lines 26-31).
get_dimension(m, sp, n) ==
    IF m.win[sp].orientation = WM_HORIZONTAL THEN m.win[n].real_height
    ELSE m.win[n].real_width
get_position(m, sp, n) ==
    IF m.win[sp].orientation = WM_HORIZONTAL THEN m.win[n].top
    ELSE m.win[n].left

set_dimension(m, sp, n, v) ==
    IF m.win[sp].orientation = WM_HORIZONTAL
    THEN [m EXCEPT !.win[n].real_height = v]
    ELSE [m EXCEPT !.win[n].real_width = v]
set_position(m, sp, n, v) ==
    IF m.win[sp].orientation = WM_HORIZONTAL
    THEN [m EXCEPT !.win[n].top = v]
    ELSE [m EXCEPT !.win[n].left = v]

\* Some child pointer of sp points to a destroyed window.
DanglingChild(m, sp) ==
    \E k \in 1..Len(m.win[sp].children) : ~Live(m, m.win[sp].children[k])

(* ------------------------ layout (lines 345-446) ----------------------- *)
\* The extent layout divides among the children: the height, or the width
\* less one separator column between neighbours (line 357).
Available(m, sp) ==
    IF m.win[sp].orientation = WM_HORIZONTAL THEN m.win[sp].real_height
    ELSE m.win[sp].real_width - (Len(m.win[sp].children) - 1)

\* Lines 359-381: the loop leaves redistribute set iff some child fails one
\* of the two tests (the loop stops at the first such child).
Redistribute(m, sp) ==
    \E k \in 1..Len(m.win[sp].children) :
        LET child == m.win[sp].children[k]
        IN \/ Available(m, sp) * get_dimension(m, sp, child)
                  < wm_splitter_min_dimension(m, sp, child)
           \/ (m.win[child].real_height = 1 /\ m.win[child].real_width = 1)

RECURSIVE SumDimensions(_, _, _)
\* prev_dimension: the sum of the children's dimensions from child i on.
SumDimensions(m, sp, i) ==
    IF i >= Len(m.win[sp].children) THEN 0
    ELSE get_dimension(m, sp, Child(m.win[sp].children, i)) + SumDimensions(m, sp, i + 1)

RECURSIVE SumSeq(_)
SumSeq(s) == IF s = <<>> THEN 0 ELSE Head(s) + SumSeq(Tail(s))

\* Lines 382-407: new_sizes.
NewSizes(m, sp) ==
    LET n == Len(m.win[sp].children)
        prev_dimension == SumDimensions(m, sp, 0)
    IN IF Redistribute(m, sp)
       THEN [k \in 1..n |-> CDiv(Available(m, sp), n)]
       ELSE [k \in 1..n |->
                IF prev_dimension = 0 THEN 0
                ELSE FloatScale(get_dimension(m, sp, m.win[sp].children[k]),
                                prev_dimension, Available(m, sp))]

\* Lines 382-415: sum, as the code sets it.
LayoutSum(m, sp) ==
    IF Redistribute(m, sp) THEN Available(m, sp) ELSE SumSeq(NewSizes(m, sp))

RECURSIVE wm_window_layout_event(_, _), LayoutLoop(_, _, _, _, _, _)

\* Curses refuses (returns ERR and changes nothing) a size below one cell
\* and a rectangle that leaves the screen.
OnScreen(top, left, height, width) ==
    /\ height >= 1 /\ width >= 1 /\ top >= 0 /\ left >= 0
    /\ top + height <= ScreenHeight /\ left + width <= ScreenWidth
wresize(rect, height, width) ==
    IF OnScreen(rect[1], rect[2], height, width)
    THEN <<rect[1], rect[2], height, width>> ELSE rect
mvwin(rect, top, left) ==
    IF OnScreen(top, left, rect[3], rect[4])
    THEN <<top, left, rect[3], rect[4]>> ELSE rect

\* Lines 555-569: the canvas is resized and moved, twice over, then the
\* window reads its rectangle back in its layout event.
wm_splitter_place_window(m, n, top, left, height, width) ==
    LET r1 == wresize(m.win[n].canvas, height, width)
        r2 == mvwin(r1, top, left)
        r3 == wresize(r2, height, width)
        r4 == mvwin(r3, top, left)
    IN wm_window_layout_event([Deref(m, n) EXCEPT !.win[n].canvas = r4], n)

\* Lines 417-441, from child i on.
LayoutLoop(m, sp, i, new_sizes, remainder, position) ==
    LET n == Len(m.win[sp].children) IN
    IF i >= n THEN m
    ELSE
      LET child == Child(m.win[sp].children, i)
          min == wm_splitter_min_dimension(m, sp, child)
          \* while (my_dimension < min && remainder)
          fill == IF new_sizes[i + 1] >= min \/ remainder = 0 THEN 0
                  ELSE IF remainder > 0 THEN Min(min - new_sizes[i + 1], remainder)
                  ELSE min - new_sizes[i + 1]
          rem1 == remainder - fill
          last_child == (rem1 # 0 /\ i = n - 1)
          my_dimension == new_sizes[i + 1] + fill + (IF last_child THEN rem1 ELSE 0)
          rem2 == IF last_child THEN 0 ELSE rem1
          placed ==
              IF m.win[sp].orientation = WM_HORIZONTAL
              THEN wm_splitter_place_window(m, child, position, m.win[sp].left,
                                            my_dimension, m.win[sp].real_width)
              ELSE wm_splitter_place_window(m, child, m.win[sp].top, position,
                                            m.win[sp].real_height, my_dimension)
          \* line 440: the child is notified a second time
          notified == wm_window_layout_event(placed, child)
      IN LayoutLoop(notified, sp, i + 1, new_sizes, rem2,
                    IF m.win[sp].orientation = WM_HORIZONTAL
                    THEN position + my_dimension
                    ELSE position + my_dimension + 1)

wm_splitter_layout(m, sp) ==
    LET prev_dimension == SumDimensions(m, sp, 0)
        m1 == [m EXCEPT !.ub = m.ub \/ DanglingChild(m, sp)
                                     \/ (~Redistribute(m, sp) /\ prev_dimension = 0
                                         /\ Len(m.win[sp].children) > 0)]
    IN LayoutLoop(m1, sp, 0, NewSizes(m, sp),
                  Available(m, sp) - LayoutSum(m, sp),
                  get_position(m, sp, sp))

\* The layout event of a window: the window reads the rectangle of its
\* canvas (getbegyx, getmaxyx); a splitter then lays out its children, a
\* pane has nothing more to place.
wm_window_layout_event(m, n) ==
    LET rect == m.win[n].canvas
        m1 == [Deref(m, n) EXCEPT !.win[n].top = rect[1], !.win[n].left = rect[2],
                                  !.win[n].real_height = rect[3],
                                  !.win[n].real_width = rect[4]]
    IN IF m.win[n].is_splitter THEN wm_splitter_layout(m1, n) ELSE m1

(* ------------------- the window base (wm_window, wm) ------------------- *)
\* wm_window_set_context: the window joins the tree under `parent' and takes
\* the canvas `cwindow', whose rectangle rect = <<top, left, height, width>>
\* it reads back.
wm_window_set_context(m, n, parent, cwindow, rect) ==
    [Deref(m, n) EXCEPT !.win[n].parent = parent, !.win[n].cwindow = cwindow,
                        !.win[n].canvas = rect,
                        !.win[n].top = rect[1], !.win[n].left = rect[2],
                        !.win[n].real_height = rect[3],
                        !.win[n].real_width = rect[4]]

Rect(m, n) ==
    <<m.win[n].top, m.win[n].left, m.win[n].real_height, m.win[n].real_width>>

\* derwin(parent->cwindow, 1, 1, 0, 0): a 1 x 1 canvas at the origin of the
\* parent's canvas.
Derwin(m, sp) == <<m.win[sp].canvas[1], m.win[sp].canvas[2], 1, 1>>

\* wm_window_init on freshly allocated memory: a pane the caller created
\* with the given minimum_size policy.
wm_window_init(m, n, policy) ==
    [m EXCEPT !.win[n] = [NoWindow EXCEPT !.state = "live", !.minimum_size = policy]]

\* Lines 33-54.
wm_splitter_create(m, n, orientation) ==
    [m EXCEPT !.win[n] = [NoWindow EXCEPT !.state = "live", !.is_splitter = TRUE,
                                          !.orientation = orientation]]

RECURSIVE wm_window_destroy(_, _), wm_splitter_destroy(_, _, _)

\* Lines 331-343: the children are destroyed in order, from child i on.
wm_splitter_destroy(m, sp, i) ==
    IF i >= Len(m.win[sp].children) THEN m
    ELSE wm_splitter_destroy(wm_window_destroy(m, Child(m.win[sp].children, i)),
                             sp, i + 1)

\* wm_window_destroy: the destroy method, then the canvas and the memory are
\* released.  The freed memory keeps its last contents.
wm_window_destroy(m, n) ==
    LET m1 == IF m.win[n].is_splitter THEN wm_splitter_destroy(Deref(m, n), n, 0)
              ELSE Deref(m, n)
    IN [m1 EXCEPT !.win[n].state = "freed", !.win[n].cwindow = NULL,
                  !.win[n].canvas = <<0, 0, 0, 0>>]

wm_is_focused(m, n) == m.wm.focused_window = n

wm_focus(m, n) == [m EXCEPT !.wm.focused_window = n]

RECURSIVE FirstPane(_, _)
\* The first leaf below n.
FirstPane(m, n) ==
    IF m.win[n].is_splitter /\ Len(m.win[n].children) > 0
    THEN FirstPane(m, m.win[n].children[1])
    ELSE n

\* wm_new_main: child replaces the main window `self' and takes its canvas;
\* the collapsed splitter is destroyed; a focus handle that pointed at the
\* closed pane follows the surviving subtree.
wm_new_main(m, self, child) ==
    LET m1 == wm_window_set_context(m, child, NULL, m.win[self].cwindow,
                                    m.win[self].canvas)
        m2 == [m1 EXCEPT !.wm.main_window = child, !.win[self].cwindow = NULL]
        m3 == wm_window_destroy(m2, self)
        m4 == IF Live(m3, m3.wm.focused_window) THEN m3
              ELSE wm_focus(m3, FirstPane(m3, child))
    IN wm_window_layout_event(m4, child)

(* ------------------ child array (lines 516-543) ------------------------ *)
RECURSIVE FindFrom(_, _, _)
FindFrom(c, n, i) ==
    IF i >= Len(c) THEN -1
    ELSE IF Child(c, i) = n THEN i
    ELSE FindFrom(c, n, i + 1)

\* Lines 516-526: the first index of window, or -1.
wm_splitter_find_child(m, sp, window) == FindFrom(m.win[sp].children, window, 0)

\* The array without the entry at index i (lines 537-540).
RemoveAt(c, i) == [k \in 1..(Len(c) - 1) |-> IF k <= i THEN c[k] ELSE c[k + 1]]

\* Lines 528-543; ret is -1 when window is no child.
wm_splitter_array_remove(m, sp, window) ==
    LET i == wm_splitter_find_child(m, sp, window)
    IN IF i < 0 THEN [m EXCEPT !.ret = -1]
       ELSE [m EXCEPT !.win[sp].children = RemoveAt(m.win[sp].children, i),
                      !.ret = 0]

RECURSIVE ShiftLoop(_, _, _)
\* Lines 268-270: for (i = pos; i < num_children; ++i) children[i+1] = children[i],
\* on the array c of num_children + 1 slots.
ShiftLoop(c, i, num_children) ==
    IF i >= num_children THEN c
    ELSE ShiftLoop([c EXCEPT ![i + 2] = c[i + 1]], i + 1, num_children)

\* Lines 263-272: the array after obj is stored at pos.
ArrayInsert(c, pos, obj) ==
    [ShiftLoop(Append(c, NULL), pos, Len(c)) EXCEPT ![pos + 1] = obj]

(* ------------------------ split (lines 224-275) ------------------------ *)
\* A split whose new intermediate splitter shares the canvas of the target:
\* the target is moved under the splitter without a canvas of its own.
SplitSharingCanvas(m, sp, window, new_window, orientation) ==
    LET i == wm_splitter_find_child(m, sp, window)
        pos == IF window # NULL THEN i + 1 ELSE Len(m.win[sp].children)
    IN
    IF window # NULL /\ i < 0 THEN [m EXCEPT !.ret = -1]
    ELSE IF window = NULL /\ orientation # m.win[sp].orientation
    THEN [m EXCEPT !.ret = -1]
    ELSE IF orientation = m.win[sp].orientation
    THEN
      LET m1 == wm_window_set_context(m, new_window, sp, NewCanvas(m), Derwin(m, sp))
          m2 == [m1 EXCEPT !.win[sp].children =
                               ArrayInsert(m1.win[sp].children, pos, new_window)]
      IN [wm_window_layout_event(m2, sp) EXCEPT !.ret = 0]
    ELSE
      LET new_splitter == Malloc(m)
          m1 == wm_splitter_create(m, new_splitter, orientation)
          m2 == wm_window_set_context(m1, new_splitter, sp, m1.win[window].cwindow,
                                      m1.win[window].canvas)
          m3 == wm_splitter_array_remove(m2, sp, window)
          m4 == [m3 EXCEPT !.win[window].parent = new_splitter]
          m5 == wm_window_set_context(m4, new_window, new_splitter, NewCanvas(m4),
                                      Derwin(m4, new_splitter))
          m6 == [m5 EXCEPT !.win[new_splitter].children = <<window, new_window>>,
                           !.win[sp].children =
                               ArrayInsert(m5.win[sp].children, pos - 1, new_splitter)]
      IN [wm_window_layout_event(m6, sp) EXCEPT !.ret = 0]

RECURSIVE wm_splitter_split(_, _, _, _, _)
wm_splitter_split(m, sp, window, new_window, orientation) ==
    LET i == wm_splitter_find_child(m, sp, window)
        pos == IF window # NULL THEN i + 1 ELSE Len(m.win[sp].children)
    IN
    IF window # NULL /\ i < 0 THEN [m EXCEPT !.ret = -1]
    ELSE IF window = NULL /\ orientation # m.win[sp].orientation
    THEN [m EXCEPT !.ret = -1]
    ELSE IF orientation = m.win[sp].orientation
    THEN
      LET m1 == wm_window_set_context(m, new_window, sp, NewCanvas(m), Derwin(m, sp))
          m2 == [m1 EXCEPT !.win[sp].children =
                               ArrayInsert(m1.win[sp].children, pos, new_window)]
      IN [wm_window_layout_event(m2, sp) EXCEPT !.ret = 0]
    ELSE
      LET new_splitter == Malloc(m)
          m1 == wm_splitter_create(m, new_splitter, orientation)
          m2 == wm_window_set_context(m1, new_splitter, sp, m1.win[window].cwindow,
                                      m1.win[window].canvas)
          m3 == wm_splitter_array_remove(m2, sp, window)
          m4 == wm_splitter_split(m3, new_splitter, NULL, window, orientation)
          m5 == wm_splitter_split(m4, new_splitter, window, new_window, orientation)
          m6 == [m5 EXCEPT !.win[sp].children =
                               ArrayInsert(m5.win[sp].children, pos - 1, new_splitter)]
      IN [wm_window_layout_event(m6, sp) EXCEPT !.ret = 0]

(* ------------------------ remove (lines 56-101) ------------------------ *)
\* Lines 75-81: the first entry equal to self becomes child.
ReplaceFirst(c, self, child) ==
    LET i == FindFrom(c, self, 0)
    IN IF i < 0 THEN c ELSE [c EXCEPT ![i + 1] = child]

wm_splitter_remove(m, sp, window) ==
    LET need_focus == wm_is_focused(m, window)
        r1 == wm_splitter_array_remove(m, sp, window)
    IN
    \* assert(splitter->num_children >= 2)
    IF Len(m.win[sp].children) < 2 THEN [m EXCEPT !.abort = TRUE]
    ELSE IF r1.ret # 0 THEN [m EXCEPT !.ret = -1]
    ELSE
      LET m2 == wm_window_destroy(r1, window) IN
      IF Len(m2.win[sp].children) = 1
      THEN
        LET self == sp
            parent == m2.win[self].parent
            child == Child(m2.win[sp].children, 0)
            m3 == wm_splitter_array_remove(m2, sp, child)
        IN IF parent # NULL
           THEN
             LET m4 == [m3 EXCEPT !.win[parent].children =
                                      ReplaceFirst(m3.win[parent].children, self, child)]
                 m5 == wm_window_set_context(m4, child, m4.win[self].parent,
                                             m4.win[self].cwindow, m4.win[self].canvas)
                 m6 == IF need_focus THEN wm_focus(m5, child) ELSE m5
                 m7 == [m6 EXCEPT !.win[self].cwindow = NULL]
                 m8 == wm_window_destroy(m7, self)
             IN [wm_window_layout_event(m8, parent) EXCEPT !.ret = 0]
           ELSE [wm_new_main(m3, self, child) EXCEPT !.ret = 0]
      ELSE
        LET m3 == IF need_focus THEN wm_focus(m2, Child(m2.win[sp].children, 0))
                  ELSE m2
        IN [wm_window_layout_event(m3, sp) EXCEPT !.ret = 0]

(* ------------------------ resize (lines 103-222) ----------------------- *)
add_dimension(m, sp, n, d) == set_dimension(m, sp, n, get_dimension(m, sp, n) + d)
add_position(m, sp, n, d) == set_position(m, sp, n, get_position(m, sp, n) + d)

RECURSIVE MaxLoop(_, _, _, _, _)
\* Lines 131-136: max less the minimum of every child other than window.
MaxLoop(m, sp, window, i, max) ==
    IF i >= Len(m.win[sp].children) THEN max
    ELSE LET child == Child(m.win[sp].children, i)
         IN MaxLoop(m, sp, window, i + 1,
                    IF child # window
                    THEN max - wm_splitter_min_dimension(m, sp, child)
                    ELSE max)

\* Lines 121-139: the size after clamping.
ClampSize(m, sp, window, size) ==
    LET min == wm_splitter_min_dimension(m, sp, window)
        s1 == IF size < min THEN min ELSE size
        max0 == IF m.win[sp].orientation = WM_HORIZONTAL
                THEN m.win[sp].real_height
                ELSE m.win[sp].real_width - (Len(m.win[sp].children) - 1)
        max == MaxLoop(m, sp, window, 0, max0)
    IN IF s1 > max THEN max ELSE s1

RECURSIVE ShiftUp(_, _, _, _, _), ShiftDown(_, _, _, _, _)
\* Line 181: for (k = lo; k < hi; ++k) position(children[k]) += d
ShiftUp(m, sp, k, hi, d) ==
    IF k >= hi THEN m
    ELSE ShiftUp(add_position(m, sp, Child(m.win[sp].children, k), d), sp, k + 1, hi, d)
\* Line 199: for (k = hi; k > lo; --k) position(children[k]) -= d
ShiftDown(m, sp, k, lo, d) ==
    IF k <= lo THEN m
    ELSE ShiftDown(add_position(m, sp, Child(m.win[sp].children, k), -d), sp, k - 1, lo, d)

\* Lines 151-166: shrink window, grow the neighbour.
ShrinkWindow(m, sp, window, i, desired_change) ==
    LET wrapped == (i + 1 = Len(m.win[sp].children))
        next == IF wrapped THEN Child(m.win[sp].children, i - 1)
                ELSE Child(m.win[sp].children, i + 1)
        m1 == add_dimension(m, sp, next, -desired_change)
        m2 == add_dimension(m1, sp, window, desired_change)
    IN IF wrapped THEN add_position(m2, sp, window, -desired_change)
       ELSE add_position(m2, sp, next, desired_change)

RECURSIVE BorrowSuccessors(_, _, _, _, _, _, _), BorrowPredecessors(_, _, _, _, _, _, _)
\* Lines 169-185; the result is <<memory, actual_change>>.
BorrowSuccessors(m, sp, window, i, j, actual_change, desired_change) ==
    IF actual_change = desired_change \/ j >= Len(m.win[sp].children)
    THEN <<m, actual_change>>
    ELSE
      LET cj == Child(m.win[sp].children, j)
          avail == get_dimension(m, sp, cj) - wm_splitter_min_dimension(m, sp, cj)
          this_change == Min(desired_change - actual_change, avail)
          m1 == add_position(m, sp, cj, this_change)
          m2 == add_dimension(m1, sp, cj, -this_change)
          m3 == add_dimension(m2, sp, window, this_change)
          m4 == ShiftUp(m3, sp, i + 1, j, this_change)
      IN BorrowSuccessors(m4, sp, window, i, j + 1,
                          actual_change + this_change, desired_change)

\* Lines 187-203; the result is <<memory, actual_change>>.
BorrowPredecessors(m, sp, window, i, j, actual_change, desired_change) ==
    IF actual_change = desired_change \/ j < 0
    THEN <<m, actual_change>>
    ELSE
      LET cj == Child(m.win[sp].children, j)
          avail == get_dimension(m, sp, cj) - wm_splitter_min_dimension(m, sp, cj)
          this_change == Min(desired_change - actual_change, avail)
          m1 == add_dimension(m, sp, cj, -this_change)
          m2 == add_position(m1, sp, window, -this_change)
          m3 == add_dimension(m2, sp, window, this_change)
          m4 == ShiftDown(m3, sp, i - 1, j, this_change)
      IN BorrowPredecessors(m4, sp, window, i, j - 1,
                            actual_change + this_change, desired_change)

\* Lines 167-204.
GrowWindow(m, sp, window, i, desired_change) ==
    LET s == BorrowSuccessors(m, sp, window, i, i + 1, 0, desired_change)
    IN BorrowPredecessors(s[1], sp, window, i, i - 1, s[2], desired_change)[1]

RECURSIVE PlaceUpdated(_, _, _)
\* Lines 206-219: every child whose fields differ from the rectangle of its
\* canvas is placed.
PlaceUpdated(m, sp, i) ==
    IF i >= Len(m.win[sp].children) THEN m
    ELSE LET child == Child(m.win[sp].children, i)
         IN PlaceUpdated(
               IF Rect(m, child) # m.win[child].canvas
               THEN wm_splitter_place_window(m, child, m.win[child].top,
                        m.win[child].left, m.win[child].real_height,
                        m.win[child].real_width)
               ELSE Deref(m, child),
               sp, i + 1)

\* A resize that applies the change before it looks the window up: the
\* change is made at the slot the lookup would have given, children[0] when
\* the window is no child.
ResizeBeforeLookup(m, sp, window, dir, size) ==
    LET m0 == Deref(m, window)
        desired_change == ClampSize(m, sp, window, size) - get_dimension(m, sp, window)
        i == wm_splitter_find_child(m, sp, window)
        j == IF i < 0 THEN 0 ELSE i
        m1 == IF desired_change < 0
              THEN ShrinkWindow(m0, sp, Child(m.win[sp].children, j), j, desired_change)
              ELSE GrowWindow(m0, sp, Child(m.win[sp].children, j), j, desired_change)
    IN
    IF Len(m.win[sp].children) = 1 THEN [m0 EXCEPT !.ret = -1]
    ELSE IF dir # m.win[sp].orientation THEN [m0 EXCEPT !.ret = -1]
    ELSE IF desired_change = 0
    THEN [m0 EXCEPT !.ret = 0, !.ub = @ \/ DanglingChild(m, sp)]
    ELSE [PlaceUpdated(m1, sp, 0) EXCEPT !.ret = IF i < 0 THEN -1 ELSE 0]

wm_splitter_resize_window(m, sp, window, dir, size) ==
    LET m0 == Deref(m, window)
        desired_change == ClampSize(m, sp, window, size) - get_dimension(m, sp, window)
        i == wm_splitter_find_child(m, sp, window)
    IN
    IF Len(m.win[sp].children) = 1 THEN [m0 EXCEPT !.ret = -1]
    ELSE IF dir # m.win[sp].orientation THEN [m0 EXCEPT !.ret = -1]
    ELSE IF desired_change = 0
    THEN [m0 EXCEPT !.ret = 0, !.ub = @ \/ DanglingChild(m, sp)]
    ELSE IF i < 0 THEN [m0 EXCEPT !.ret = -1, !.ub = @ \/ DanglingChild(m, sp)]
    ELSE
      LET m1 == IF desired_change < 0
                THEN ShrinkWindow(m0, sp, window, i, desired_change)
                ELSE GrowWindow(m0, sp, window, i, desired_change)
      IN [PlaceUpdated(m1, sp, 0) EXCEPT !.ret = 0]

(* ------------------ neighbours (lines 277-327, 571-602) ---------------- *)
WM_UP == "WM_UP"
WM_DOWN == "WM_DOWN"
WM_LEFT == "WM_LEFT"
WM_RIGHT == "WM_RIGHT"
Directions == {WM_UP, WM_DOWN, WM_LEFT, WM_RIGHT}

\* The test of lines 288-291 with the two orientations mixed up.
AlignedSwapped(orientation, dir) ==
    ~(\/ (orientation = WM_VERTICAL /\ dir \in {WM_LEFT, WM_RIGHT})
      \/ (orientation = WM_HORIZONTAL /\ dir \in {WM_UP, WM_DOWN}))

\* Lines 288-291, negated: the splitter divides along the axis of dir.
Aligned(orientation, dir) ==
    ~(\/ (orientation = WM_HORIZONTAL /\ dir \in {WM_LEFT, WM_RIGHT})
      \/ (orientation = WM_VERTICAL /\ dir \in {WM_UP, WM_DOWN}))

RECURSIVE ScanBefore(_, _, _), ScanAfter(_, _, _)
\* Lines 303-308: for (i = 1; i < num_children; ++i), from i on.
ScanBefore(c, window, i) ==
    IF i >= Len(c) THEN NULL
    ELSE IF Child(c, i) = window THEN Child(c, i - 1)
    ELSE ScanBefore(c, window, i + 1)
\* Lines 313-318: for (i = 0; i < num_children - 1; ++i), from i on.
ScanAfter(c, window, i) ==
    IF i >= Len(c) - 1 THEN NULL
    ELSE IF Child(c, i) = window THEN Child(c, i + 1)
    ELSE ScanAfter(c, window, i + 1)

RECURSIVE FindAtLoop(_, _, _, _), wm_splitter_find_window_at(_, _, _)
\* Lines 577-596, from child i on; cursor_pos = <<top, left>>.
FindAtLoop(m, sp, cursor_pos, i) ==
    IF i >= Len(m.win[sp].children) THEN NULL
    ELSE
      LET child == Child(m.win[sp].children, i)
          horizontal == (m.win[sp].orientation = WM_HORIZONTAL)
          value == IF horizontal THEN cursor_pos[1] ELSE cursor_pos[2]
          lower_bound == IF horizontal THEN m.win[child].top ELSE m.win[child].left
          upper_bound == IF horizontal
                         THEN m.win[child].top + m.win[child].real_height
                         ELSE m.win[child].left + m.win[child].real_width
      IN IF \/ (value >= lower_bound /\ value < upper_bound)
            \/ (i = 0 /\ value < lower_bound)
            \/ (i = Len(m.win[sp].children) - 1 /\ value >= upper_bound)
         THEN child
         ELSE FindAtLoop(m, sp, cursor_pos, i + 1)

\* Lines 571-602.
wm_splitter_find_window_at(m, sp, cursor_pos) ==
    LET result == FindAtLoop(m, sp, cursor_pos, 0)
    IN IF result # NULL /\ m.win[result].is_splitter
       THEN wm_splitter_find_window_at(m, result, cursor_pos)
       ELSE result

RECURSIVE wm_splitter_get_neighbor(_, _, _, _, _)
\* Lines 277-327.
wm_splitter_get_neighbor(m, sp, window, dir, cursor_pos) ==
    LET parent == m.win[sp].parent
        result == IF dir \in {WM_UP, WM_LEFT}
                  THEN ScanBefore(m.win[sp].children, window, 1)
                  ELSE ScanAfter(m.win[sp].children, window, 0)
    IN IF ~Aligned(m.win[sp].orientation, dir)
       THEN IF parent = NULL THEN NULL
            ELSE wm_splitter_get_neighbor(m, parent, sp, dir, cursor_pos)
       ELSE IF result # NULL /\ m.win[result].is_splitter
       THEN wm_splitter_find_window_at(m, result, cursor_pos)
       ELSE result

(* ===================== the scroller (cgdb/scroller.c) ================== *)
(* A line of the buffer and the bytes handed to scr_add are C strings,     *)
(* modelled as sequences of byte values without the terminating 0.  The    *)
(* scroller is the record [buffer, current |-> [r, c, pos], win |->        *)
(* [height, width]]; scr->length is Len(buffer).  Indices named i, j below *)
(* are the 0-based indices of the C code.                                  *)
BS == 8
TAB == 9
NL == 10
CR == 13
DEL == 127
tab_size == 8

\* isprint and isspace of the C locale.
isprint(b) == b >= 32 /\ b <= 126
isspace(b) == b \in {9, 10, 11, 12, 13, 32}

\* Lines 43-54: the occurrences of the byte c in s.
count(s, c) == Cardinality({k \in 1..Len(s) : s[k] = c})

\* strlen of the array a (1-based sequence that holds a 0 byte).
strlen(a) ==
    IF \E k \in 1..Len(a) : a[k] = 0
    THEN (CHOOSE k \in 1..Len(a) : a[k] = 0 /\ \A x \in 1..(k - 1) : a[x] # 0) - 1
    ELSE Len(a)

\* rv[i] = b; a write outside the allocated array is undefined behaviour.
Store(st, i, b) ==
    IF i + 1 \in 1..Len(st.rv) THEN [st EXCEPT !.rv[i + 1] = b]
    ELSE [st EXCEPT !.ub = TRUE]

RECURSIVE TabFill(_)
\* Lines 86-88: do rv[i++] = ' '; while (i % tab_size != 0).
TabFill(st) ==
    LET st1 == [Store(st, st.i, 32) EXCEPT !.i = st.i + 1]
    IN IF st1.i % tab_size # 0 THEN TabFill(st1) ELSE st1

\* One byte of the input when a tab is one space.
ParseByteTabOnce(st, b) ==
    IF b = BS \/ b = DEL THEN (IF st.i > 0 THEN [st EXCEPT !.i = st.i - 1] ELSE st)
    ELSE IF b = CR THEN [st EXCEPT !.i = 0]
    ELSE IF isprint(b) \/ b = TAB
    THEN [Store(st, st.i, IF b = TAB THEN 32 ELSE b) EXCEPT !.i = st.i + 1]
    ELSE st

\* Lines 77-101: one byte of the input, on st = [rv, i, ub].
ParseByte(st, b) ==
    IF b = BS \/ b = DEL THEN (IF st.i > 0 THEN [st EXCEPT !.i = st.i - 1] ELSE st)
    ELSE IF b = TAB THEN TabFill(st)
    ELSE IF b = CR THEN [st EXCEPT !.i = 0]
    ELSE IF isprint(b) THEN [Store(st, st.i, b) EXCEPT !.i = st.i + 1]
    ELSE st

RECURSIVE ParseLoop(_, _, _)
\* Lines 76-102, from byte j of buf on.
ParseLoop(st, buf, j) ==
    IF j >= Len(buf) THEN st
    ELSE ParseLoop(ParseByte(st, buf[j + 1]), buf, j + 1)

RECURSIVE TrimAnywhere(_, _, _)
\* The loop of line 106 without the test j > i: white space is removed up to
\* the start of the line, whatever the caret.
TrimAnywhere(rv, i, j) ==
    IF j >= 0 /\ isspace(rv[j + 1]) THEN TrimAnywhere(rv, i, j - 1) ELSE j

RECURSIVE TrimFrom(_, _, _)
\* Line 106: for (j = strlen(rv) - 1; j > i && isspace(rv[j]); j--), from j on.
TrimFrom(rv, i, j) ==
    IF j > i /\ isspace(rv[j + 1]) THEN TrimFrom(rv, i, j - 1) ELSE j

RECURSIVE Zeros(_)
\* Line 71: n zero bytes.
Zeros(n) == IF n <= 0 THEN <<>> ELSE Append(Zeros(n - 1), 0)

\* Lines 66-102: the array rv, the caret i and whether a write left the array,
\* after the special characters of buf are expanded.
Expand(pos, orig, buf) ==
    LET length == Len(orig) + Len(buf) + (tab_size - 1) * count(buf, TAB)
        rv0 == orig \o Zeros(length + 1 - Len(orig))
    IN ParseLoop([rv |-> rv0, i |-> pos, ub |-> FALSE], buf, 0)

\* Lines 63-110: [line, pos, ub], the string returned, the caret stored in
\* scr->current.pos and whether a write left the array.
parse(pos, orig, buf) ==
    LET st == Expand(pos, orig, buf)
        j == TrimFrom(st.rv, st.i, strlen(st.rv) - 1)
        rv == IF j + 2 \in 1..Len(st.rv) THEN [st.rv EXCEPT ![j + 2] = 0] ELSE st.rv
    IN [line |-> SubSeq(rv, 1, strlen(rv)), pos |-> st.i,
        \* strlen of an array without a 0 byte reads past its end
        ub |-> st.ub \/ (\A k \in 1..Len(st.rv) : st.rv[k] # 0)]

\* Lines 118-136.
scr_new(height, width) ==
    [buffer |-> << <<>> >>, current |-> [r |-> 0, c |-> 0, pos |-> 0],
     win |-> [height |-> height, width |-> width], ub |-> FALSE]

\* Lines 242, 247: the last line of the buffer, scr->buffer[scr->length - 1].
LastLine(scr) == scr.buffer[Len(scr.buffer)]

\* Lines 161-165, 193-197, 330-335: the column is cut down to a multiple of
\* the width.
SanityCheck(scr) ==
    LET width == scr.win.width
    IN IF scr.current.c > 0 /\ scr.current.c % width # 0
       THEN [scr EXCEPT !.current.c = CDiv(scr.current.c, width) * width]
       ELSE scr

RECURSIVE UpLoop(_, _, _), DownLoop(_, _, _)
\* Lines 167-183, from iteration i on.
UpLoop(scr, i, nlines) ==
    LET width == scr.win.width IN
    IF i >= nlines THEN scr
    ELSE IF scr.current.c > 0
    THEN UpLoop([scr EXCEPT !.current.c = @ - width], i + 1, nlines)
    ELSE IF scr.current.r > 0
    THEN LET r == scr.current.r - 1
             length == Len(scr.buffer[r + 1])
         IN UpLoop([scr EXCEPT !.current.r = r,
                               !.current.c = IF length > width
                                             THEN CDiv(length - 1, width) * width
                                             ELSE @],
                   i + 1, nlines)
    ELSE scr

\* Lines 154-184.
scr_up(scr, nlines) == UpLoop(SanityCheck(scr), 0, nlines)

\* Lines 199-215, from iteration i on.
DownLoop(scr, i, nlines) ==
    LET width == scr.win.width
        length == Len(scr.buffer[scr.current.r + 1])
    IN
    IF i >= nlines THEN scr
    ELSE IF scr.current.c < length - width
    THEN DownLoop([scr EXCEPT !.current.c = @ + width], i + 1, nlines)
    ELSE IF scr.current.r < Len(scr.buffer) - 1
    THEN DownLoop([scr EXCEPT !.current.r = @ + 1, !.current.c = 0], i + 1, nlines)
    ELSE scr

\* Lines 186-216.
scr_down(scr, nlines) == DownLoop(SanityCheck(scr), 0, nlines)

\* Lines 218-222.
scr_home(scr) == [scr EXCEPT !.current.r = 0, !.current.c = 0]

\* Lines 224-232.
scr_end(scr) ==
    LET r == Len(scr.buffer) - 1
    IN [scr EXCEPT !.current.r = r,
                   !.current.c = CDiv(Len(scr.buffer[r + 1]), scr.win.width)
                                 * scr.win.width]

\* strchr(buf + from, c) - buf: the index of the first c at or after index
\* from, or -1.
IndexFrom(buf, c, from) ==
    IF \E k \in (from + 1)..Len(buf) : buf[k] = c
    THEN (CHOOSE k \in (from + 1)..Len(buf) :
              buf[k] = c /\ \A x \in (from + 1)..(k - 1) : buf[x] # c) - 1
    ELSE -1

\* The loop of lines 258-278 left after its first round: one line is added
\* however many newlines follow.
AddLinesOnce(scr, buf, from) ==
    LET x == IndexFrom(buf, NL, from)
        distance == IF x >= 0 THEN x - from ELSE Len(buf) - from
        p == parse(0, <<>>, SubSeq(buf, from + 1, from + distance))
    IN [scr EXCEPT !.buffer = Append(@, p.line), !.current.pos = p.pos,
                   !.ub = @ \/ p.ub]

RECURSIVE AddLinesKeepPos(_, _, _)
\* The loop of lines 258-278 without line 273: the caret of the line before
\* is carried into the new line.
AddLinesKeepPos(scr, buf, from) ==
    LET x == IndexFrom(buf, NL, from)
        distance == IF x >= 0 THEN x - from ELSE Len(buf) - from
        newbuf == SubSeq(buf, from + 1, from + distance)
        p == parse(scr.current.pos, <<>>, newbuf)
        scr1 == [scr EXCEPT !.buffer = Append(@, p.line), !.current.pos = p.pos,
                            !.ub = @ \/ p.ub]
    IN IF x >= 0 THEN AddLinesKeepPos(scr1, buf, x + 1) ELSE scr1

RECURSIVE AddLines(_, _, _)
\* Lines 258-278: buf from index `from' on, the byte after a newline.
AddLines(scr, buf, from) ==
    LET x == IndexFrom(buf, NL, from)
        distance == IF x >= 0 THEN x - from ELSE Len(buf) - from
        newbuf == SubSeq(buf, from + 1, from + distance)
        p == parse(0, <<>>, newbuf)
        scr1 == [scr EXCEPT !.buffer = Append(@, p.line), !.current.pos = p.pos,
                            !.ub = @ \/ p.ub]
    IN IF x >= 0 THEN AddLines(scr1, buf, x + 1) ELSE scr1

\* Lines 234-281.
scr_add(scr, buf) ==
    LET x == IndexFrom(buf, NL, 0)
        distance == IF x >= 0 THEN x ELSE Len(buf)
        last_line == Len(scr.buffer)
        p == parse(scr.current.pos, scr.buffer[last_line], SubSeq(buf, 1, distance))
        scr1 == IF distance > 0
                THEN [scr EXCEPT !.buffer[last_line] = p.line, !.current.pos = p.pos,
                                 !.ub = @ \/ p.ub]
                ELSE scr
        scr2 == IF x >= 0 THEN AddLines(scr1, buf, x + 1) ELSE scr1
    IN scr_end(scr2)

\* A move that also returns the viewport to the first line.
MoveToTop(scr, height, width) ==
    [scr EXCEPT !.win = [height |-> height, width |-> width],
                !.current.r = 0, !.current.c = 0]

\* Lines 283-288: the scroller gets a new window.
scr_move(scr, height, width) ==
    [scr EXCEPT !.win = [height |-> height, width |-> width]]

(* ------------------ rendering (lines 290-446) -------------------------- *)
\* line[i] of the C string, the terminating 0 included.
At(line, i) == IF i < Len(line) THEN line[i + 1] ELSE 0

RECURSIVE SkipSpaces(_, _), SkipDigits(_, _)
SkipSpaces(line, i) == IF isspace(At(line, i)) THEN SkipSpaces(line, i + 1) ELSE i
SkipDigits(line, i) == IF At(line, i) \in 48..57 THEN SkipDigits(line, i + 1) ELSE i

\* strtol(line + i, &end, 10): the index end is left at.  White space and a
\* sign are skipped; without a digit nothing is converted and end is i.
strtol_end(line, i) ==
    LET q == SkipSpaces(line, i)
        d == IF At(line, q) \in {43, 45} THEN q + 1 ELSE q
        e == SkipDigits(line, d)
    IN IF e = d THEN i ELSE e

\* One turn of the loops at lines 300-305 and 378-383: a number, then a ';'.
ScanCode(line, i) ==
    LET e == strtol_end(line, i)
    IN IF At(line, e) = 59 THEN e + 1 ELSE e

RECURSIVE CountCells(_, _, _), HeightLoop(_, _, _)
\* Lines 294-314, with current_char at index cur.
CountCells(line, cur, length) ==
    LET escape_char == ScanCode(line, ScanCode(line, cur + 1))
    IN IF At(line, cur) = 0 THEN length
       ELSE IF At(line, cur) = 91 /\ At(line, escape_char) = 109
       THEN CountCells(line, escape_char + 1, length)
       ELSE CountCells(line, cur + 1, length + 1)

\* Lines 315-317: while ((length -= width) > 0) ++height.
HeightLoop(length, width, height) ==
    IF length - width > 0 THEN HeightLoop(length - width, width, height + 1)
    ELSE height

\* Lines 290-319.
get_line_height(line, width) == HeightLoop(CountCells(line, 0, 0), width, 1)

RECURSIVE SegmentLoop(_, _, _)
\* Lines 361-428: total_length after the segments from segment_start on.
SegmentLoop(line, segment_start, total_length) ==
    IF segment_start >= Len(line) THEN total_length
    ELSE
      LET pch == IndexFrom(line, 91, segment_start + 1)
          segment_end == IF pch < 0 THEN Len(line) ELSE pch
          c1 == IF At(line, segment_start + 1) # 0
                THEN ScanCode(line, segment_start + 1) ELSE segment_start + 1
          current_char == IF At(line, c1) # 0 THEN ScanCode(line, c1) ELSE c1
          start == IF At(line, segment_start) = 91 /\ At(line, current_char) = 109
                   THEN current_char + 1 ELSE segment_start
      IN SegmentLoop(line, segment_end, total_length + (segment_end - start))

RECURSIVE RefreshLoop(_, _, _)
\* Lines 341-433: the lines are drawn from the bottom row up; the drawing of
\* a segment stores the length drawn so far in scr->current.c (line 425).
RefreshLoop(scr, row, nlines) ==
    IF nlines > scr.win.height THEN scr
    ELSE IF row < 0 THEN RefreshLoop(scr, row, nlines + 1)
    ELSE
      LET line == scr.buffer[row + 1]
          line_height == get_line_height(line, scr.win.width)
          total_length == SegmentLoop(line, 0, 0)
          scr1 == IF Len(line) > 0 THEN [scr EXCEPT !.current.c = total_length]
                  ELSE scr
      IN RefreshLoop(scr1, row - 1, nlines + line_height)

\* The caret is shown (line 436); line 435 reads the line of the current row
\* from offset current.c on, which is outside the string when the offset is
\* larger than its length.
CaretShown(scr, focus) ==
    /\ focus
    /\ scr.current.r = Len(scr.buffer) - 1
    /\ Len(scr.buffer[scr.current.r + 1]) - scr.current.c <= scr.win.width

\* Lines 321-446.
scr_refresh(scr, focus) ==
    LET scr1 == SanityCheck(scr)
        scr2 == RefreshLoop(scr1, scr1.current.r, 1)
    IN [scr2 EXCEPT !.ub = @ \/ scr2.current.c > Len(scr2.buffer[scr2.current.r + 1])]

(* ------------------------- the state machine --------------------------- *)
\* The memory of the running program.
Mem == [win |-> win, wm |-> wm, ub |-> FALSE, abort |-> FALSE, ret |-> 0]

Panes(m) == {n \in Ids : Live(m, n) /\ ~m.win[n].is_splitter}

(* Addresses and canvas handles are opaque: the program only compares them. *)
(* After every call the memory is renumbered, the tree in preorder from the *)
(* main window, then every other window that is live or still pointed to;  *)
(* canvases are renumbered in the order of their holders.                   *)
RECURSIVE Visit(_, _, _), VisitChildren(_, _, _, _)
Visit(m, n, seen) ==
    IF n = NULL \/ n \in Range(seen) THEN seen
    ELSE VisitChildren(m, n, 0, Append(seen, n))
VisitChildren(m, n, i, seen) ==
    IF i >= Len(m.win[n].children) THEN seen
    ELSE VisitChildren(m, n, i + 1, Visit(m, Child(m.win[n].children, i), seen))

RECURSIVE Ascending(_)
Ascending(S) ==
    IF S = {} THEN <<>>
    ELSE LET x == CHOOSE y \in S : \A z \in S : y <= z
         IN <<x>> \o Ascending(S \ {x})

\* The nodes the tree walk from the main window meets.
Reachable(m) == Range(Visit(m, m.wm.main_window, <<>>))

NodeOrder(m) ==
    LET tree == Visit(m, m.wm.main_window, <<>>)
        kept == {n \in Ids : Live(m, n)} \cup (Referenced(m) \ {NULL})
    IN tree \o Ascending(kept \ Range(tree))

IndexIn(seq, x) == IF x \in Range(seq) THEN CHOOSE k \in 1..Len(seq) : seq[k] = x ELSE NULL

RECURSIVE CanvasOrder(_, _, _, _)
CanvasOrder(m, order, k, seen) ==
    IF k > Len(order) THEN seen
    ELSE LET c == m.win[order[k]].cwindow
         IN CanvasOrder(m, order, k + 1,
                IF Live(m, order[k]) /\ c # NULL /\ c \notin Range(seen)
                THEN Append(seen, c) ELSE seen)

Renumber(m) ==
    LET order == NodeOrder(m)
        canvases == CanvasOrder(m, order, 1, <<>>)
        node(n) == IndexIn(order, n)
        moved(w) == [w EXCEPT !.children = [k \in 1..Len(w.children) |-> node(w.children[k])],
                              !.parent = node(w.parent),
                              !.cwindow = IndexIn(canvases, w.cwindow)]
    IN [m EXCEPT !.win = [k \in Ids |-> IF k <= Len(order) THEN moved(m.win[order[k]])
                                        ELSE NoWindow],
                 !.wm = [main_window |-> node(m.wm.main_window),
                         focused_window |-> node(m.wm.focused_window)]]

\* The record of the last call: the operation, the branch it took, its return
\* value and whether it read freed memory.
NoCall == [op |-> "none", branch |-> "none", ret |-> 0, ub |-> FALSE]

\* The call returns with memory m.  A failed assertion aborts the process;
\* after undefined behaviour (a read of freed memory) the process either
\* dies or runs on with the stale contents of that memory.
Return(m, op, branch) ==
    \E crash \in (IF m.abort THEN {TRUE} ELSE IF m.ub THEN BOOLEAN ELSE {FALSE}) :
        IF crash
        THEN /\ crashed' = TRUE
             /\ last' = [NoCall EXCEPT !.op = "crash"]
             /\ UNCHANGED <<win, wm, scroller, input>>
        ELSE LET r == Renumber(m)
             IN /\ crashed' = FALSE
                /\ win' = r.win
                /\ wm' = r.wm
                /\ last' = [op |-> op, branch |-> branch, ret |-> m.ret, ub |-> m.ub]
                /\ UNCHANGED <<scroller, input>>

\* wm_create(main_window): one pane that fills the screen and has the focus.
wm_create(policy) ==
    [win |-> [n \in Ids |->
                IF n = 1
                THEN [NoWindow EXCEPT !.state = "live", !.cwindow = 1,
                                      !.canvas = <<0, 0, ScreenHeight, ScreenWidth>>,
                                      !.minimum_size = policy,
                                      !.real_height = ScreenHeight,
                                      !.real_width = ScreenWidth]
                ELSE NoWindow],
     wm |-> [main_window |-> 1, focused_window |-> 1],
     ub |-> FALSE, abort |-> FALSE, ret |-> 0]

Init ==
    /\ \E policy \in PanePolicies :
         /\ win = wm_create(policy).win
         /\ wm = wm_create(policy).wm
    /\ last = NoCall
    /\ crashed = FALSE
    /\ scroller = scr_new(ScreenHeight, ScreenWidth)
    /\ input = <<>>

\* wm_split on the main window: a new splitter of the orientation takes the
\* place and the canvas of the main window and receives both panes.
SplitMain(m, window, new_window, orientation) ==
    LET new_splitter == Malloc(m)
        m1 == wm_splitter_create(m, new_splitter, orientation)
        m2 == wm_window_set_context(m1, new_splitter, NULL, m1.win[window].cwindow,
                                    m1.win[window].canvas)
        m3 == wm_splitter_split(m2, new_splitter, NULL, window, orientation)
        m4 == wm_splitter_split(m3, new_splitter, window, new_window, orientation)
    IN [m4 EXCEPT !.wm.main_window = new_splitter]

\* split(target_pane, new_pane, orientation): the memory after the call; the
\* new pane is at address Malloc(m).
wm_split(m, window, policy, orientation) ==
    LET new_window == Malloc(m)
        m1 == wm_window_init(m, new_window, policy)
        sp == m.win[window].parent
        r == IF sp = NULL THEN SplitMain(m1, window, new_window, orientation)
             ELSE wm_splitter_split(Deref(m1, sp), sp, window, new_window, orientation)
    IN \* on failure the caller keeps the pane it could not insert
       IF r.ret # 0 THEN [m EXCEPT !.ret = r.ret, !.ub = r.ub] ELSE r

SplitBranch(m, window, orientation) ==
    LET sp == m.win[window].parent IN
    IF sp = NULL THEN "main"
    ELSE IF wm_splitter_find_child(m, sp, window) < 0 THEN "not_found"
    ELSE IF orientation = m.win[sp].orientation THEN "insert"
    ELSE "new_splitter"

CanSplit(window) ==
    /\ ~crashed
    /\ window \in Panes(Mem)
    /\ Cardinality(Panes(Mem)) < MaxPanes
    /\ Cardinality(FreeIds(Mem)) >= 2

Split(window, policy, orientation) ==
    /\ CanSplit(window)
    /\ Return(wm_split(Mem, window, policy, orientation), "split",
              SplitBranch(Mem, window, orientation))

\* close(pane): the memory after the call.
wm_close(m, window) ==
    LET sp == m.win[window].parent
    IN wm_splitter_remove(Deref(m, sp), sp, window)

CloseBranch(m, window) ==
    LET sp == m.win[window].parent IN
    IF wm_splitter_find_child(m, sp, window) < 0 THEN "not_found"
    ELSE IF Len(m.win[sp].children) > 2 THEN "drop"
    ELSE IF m.win[sp].parent # NULL THEN "collapse"
    ELSE "collapse_main"

\* The main window cannot be closed.
CanClose(window) ==
    /\ ~crashed
    /\ window \in Panes(Mem)
    /\ Mem.win[window].parent # NULL

Close(window) ==
    /\ CanClose(window)
    /\ Return(wm_close(Mem, window), "close", CloseBranch(Mem, window))

\* resize(pane, orientation, new_size): the memory after the call.
wm_resize(m, window, dir, size) ==
    LET sp == m.win[window].parent
    IN wm_splitter_resize_window(Deref(m, sp), sp, window, dir, size)

ResizeBranch(m, window, dir, size) ==
    LET sp == m.win[window].parent IN
    IF Len(m.win[sp].children) = 1 \/ dir # m.win[sp].orientation THEN "refused"
    ELSE IF ClampSize(m, sp, window, size) = get_dimension(m, sp, window) THEN "same"
    ELSE IF wm_splitter_find_child(m, sp, window) < 0 THEN "not_found"
    ELSE IF ClampSize(m, sp, window, size) < get_dimension(m, sp, window) THEN "shrink"
    ELSE "grow"

\* resize applies to a pane or, for the tree walker, to the splitter that
\* contains it.
CanResize(window) ==
    /\ ~crashed
    /\ Live(Mem, window)
    /\ Mem.win[window].parent # NULL

Resize(window, dir, size) ==
    /\ CanResize(window)
    /\ Return(wm_resize(Mem, window, dir, size), "resize",
              ResizeBranch(Mem, window, dir, size))

\* The user moves the focus to a pane of the tree.
CanFocus(window) ==
    /\ ~crashed
    /\ window \in Panes(Mem)
    /\ window \in Reachable(Mem)

\* focus(pane)
Focus(window) ==
    /\ CanFocus(window)
    /\ Return(wm_focus(Mem, window), "focus", "none")

\* The commands that change the tree: split, close and focus.
Next ==
    \/ \E window \in Ids, policy \in PanePolicies, orientation \in Orientations :
           Split(window, policy, orientation)
    \/ \E window \in Ids : Close(window)
    \/ \E window \in Ids : Focus(window)

Spec == Init /\ [][Next]_vars

(* ----------------------- arranged sessions ----------------------------- *)
\* The user is still arranging the tree: every call so far was a split.
Arranging == last.op \in {"none", "split"}

\* Most panes of a tree the user arranges before closing panes.
ArrangedPanes == MaxPanes + 1

\* wm_split(new_window, orientation) splits the current window, the pane
\* that has the focus.
SplitCurrent(orientation) ==
    /\ Arranging
    /\ \E policy \in PanePolicies : Split(wm.focused_window, policy, orientation)

\* A session that arranges the tree by splitting the current window and
\* then resizes its windows.
NextResize ==
    \/ \E orientation \in Orientations : SplitCurrent(orientation)
    \/ \E window \in Ids, dir \in Orientations, size \in ResizeSizes :
           Resize(window, dir, size)

SpecResize == Init /\ [][NextResize]_vars

\* split while the user arranges a tree of up to ArrangedPanes panes.
Arrange(window, policy, orientation) ==
    /\ Arranging
    /\ ~crashed
    /\ window \in Panes(Mem)
    /\ Cardinality(Panes(Mem)) < ArrangedPanes
    /\ Cardinality(FreeIds(Mem)) >= 2
    /\ Return(wm_split(Mem, window, policy, orientation), "split",
              SplitBranch(Mem, window, orientation))

\* A session that arranges the tree and then closes its panes.
NextClose ==
    \/ \E window \in Ids, policy \in PanePolicies, orientation \in Orientations :
           Arrange(window, policy, orientation)
    \/ \E window \in Ids : Close(window)

SpecClose == Init /\ [][NextClose]_vars

\* wm_split on the current window while the user arranges a crowded tree of
\* up to ArrangedPanes panes: the call allocates the new pane, and a new
\* splitter as well unless the pane is inserted into its parent.
SplitCrowded(orientation) ==
    LET window == wm.focused_window
        branch == SplitBranch(Mem, window, orientation)
    IN /\ Arranging
       /\ ~crashed
       /\ window \in Panes(Mem)
       /\ Cardinality(Panes(Mem)) < ArrangedPanes
       /\ Cardinality(FreeIds(Mem)) >= (IF branch = "insert" THEN 1 ELSE 2)
       /\ \E policy \in PanePolicies :
              Return(wm_split(Mem, window, policy, orientation), "split", branch)

\* A session that arranges a crowded tree by splitting the current window,
\* and then resizes one of its windows.
NextCrowd ==
    \/ \E orientation \in Orientations : SplitCrowded(orientation)
    \/ \E window \in Ids, dir \in Orientations, size \in ResizeSizes :
           Arranging /\ Resize(window, dir, size)

SpecCrowd == Init /\ [][NextCrowd]_vars

(* --------------------------- navigation -------------------------------- *)
\* The cells of the rectangle of window n: the positions <<top, left>> the
\* cursor of that window can be at.
CursorsIn(m, n) ==
    {<<t, l>> : t \in m.win[n].top..(m.win[n].top + m.win[n].real_height - 1),
                l \in m.win[n].left..(m.win[n].left + m.win[n].real_width - 1)}

\* focus_neighbor(direction, cursor_pos): the lookup starts at the splitter
\* that holds the focused pane; a root pane has no neighbour.
wm_focus_neighbor(m, dir, cursor_pos) ==
    LET window == m.wm.focused_window
        sp == m.win[window].parent
    IN IF sp = NULL THEN NULL
       ELSE wm_splitter_get_neighbor(m, sp, window, dir, cursor_pos)

\* Some window the tree walk meets is freed: the lookup reads freed memory.
TreeDangling(m) == \E n \in Reachable(m) : ~Live(m, n)

CanNeighbor ==
    /\ ~crashed
    /\ wm.focused_window \in Panes(Mem)

\* The user asks for the neighbour of the focused pane in a direction, with
\* the cursor at a cell of that pane; the tree is left as it is.
Neighbor(dir, cursor_pos) ==
    /\ CanNeighbor
    /\ cursor_pos \in CursorsIn(Mem, wm.focused_window)
    /\ Return([Mem EXCEPT !.ret = wm_focus_neighbor(Mem, dir, cursor_pos),
                          !.ub = TreeDangling(Mem)],
              "neighbor", dir)

\* A session that splits panes, moves the focus and looks neighbours up.
NextNeighbor ==
    \/ \E window \in Ids, policy \in PanePolicies, orientation \in Orientations :
           Split(window, policy, orientation)
    \/ \E window \in Ids : Focus(window)
    \/ \E dir \in Directions,
          cursor_pos \in (0..(ScreenHeight - 1)) \X (0..(ScreenWidth - 1)) :
           Neighbor(dir, cursor_pos)

SpecNeighbor == Init /\ [][NextNeighbor]_vars

(* ------------------------ scroller sessions ---------------------------- *)
\* Most lines of the buffer, longest line, and most rows of one scroll call.
MaxLines == 3
MaxLineLen == 4
MaxScroll == 2

\* The windows a scroller is given: <<height, width>>.
ScrWindows == {<<1, 2>>, <<2, 3>>}

\* The texts the debugger writes: a character, a long word, a newline, and a
\* colour escape "[1m".
AddInputs == {<<97>>, <<97, 97, 97>>, <<NL>>, <<91, 49, 109>>}

\* The call returns with the scroller s; a read or a write outside a string
\* is undefined behaviour, after which the process dies or runs on.
ScrReturn(s, op, buf) ==
    /\ \E crash \in (IF s.ub THEN BOOLEAN ELSE {FALSE}) :
          IF crash
          THEN /\ crashed' = TRUE
               /\ last' = [NoCall EXCEPT !.op = "crash"]
               /\ UNCHANGED <<scroller, input>>
          ELSE /\ crashed' = FALSE
               /\ scroller' = [s EXCEPT !.ub = FALSE]
               /\ last' = [op |-> op, branch |-> "none", ret |-> 0, ub |-> s.ub]
               /\ input' = buf
    /\ UNCHANGED <<win, wm>>

\* scr_new(pos_r, pos_c, height, width) for one of the windows.
InitScroller ==
    /\ \E policy \in PanePolicies :
         /\ win = wm_create(policy).win
         /\ wm = wm_create(policy).wm
    /\ last = NoCall
    /\ crashed = FALSE
    /\ \E w \in ScrWindows : scroller = scr_new(w[1], w[2])
    /\ input = <<>>

\* The buffer stays within the bounds.
WithinBounds(s) ==
    /\ Len(s.buffer) <= MaxLines
    /\ \A k \in 1..Len(s.buffer) : Len(s.buffer[k]) <= MaxLineLen

ScrAdd(buf) ==
    /\ ~crashed
    /\ WithinBounds(scr_add(scroller, buf))
    /\ ScrReturn(scr_add(scroller, buf), "scr_add", buf)

ScrUp(nlines) == ~crashed /\ ScrReturn(scr_up(scroller, nlines), "scr_up", input)

ScrDown(nlines) == ~crashed /\ ScrReturn(scr_down(scroller, nlines), "scr_down", input)

ScrHome == ~crashed /\ ScrReturn(scr_home(scroller), "scr_home", input)

ScrEnd == ~crashed /\ ScrReturn(scr_end(scroller), "scr_end", input)

ScrMove(height, width) ==
    ~crashed /\ ScrReturn(scr_move(scroller, height, width), "scr_move", input)

ScrRefresh(focus) ==
    ~crashed /\ ScrReturn(scr_refresh(scroller, focus), "scr_refresh", input)

NextScroller ==
    \/ \E buf \in AddInputs : ScrAdd(buf)
    \/ \E nlines \in 1..MaxScroll : ScrUp(nlines)
    \/ \E nlines \in 1..MaxScroll : ScrDown(nlines)
    \/ ScrHome
    \/ ScrEnd
    \/ \E w \in ScrWindows : ScrMove(w[1], w[2])
    \/ \E focus \in BOOLEAN : ScrRefresh(focus)

SpecScroller == InitScroller /\ [][NextScroller]_vars

\* The bytes of a line the debugger writes: backspace, delete, tab, carriage
\* return, space, a letter and a bell; a line has at most MaxInput of them.
MaxInput == 3
InputBytes == {BS, DEL, TAB, CR, 32, 97, 7}
InputLines == UNION {[1..n -> InputBytes] : n \in 0..MaxInput}

\* The scroller as scr_new leaves it.
Fresh(s) ==
    /\ s.buffer = << <<>> >>
    /\ s.current = [r |-> 0, c |-> 0, pos |-> 0]

\* The first text a new scroller receives is a line s and its newline.
AddLine(s) ==
    /\ ~crashed
    /\ Fresh(scroller)
    /\ last = NoCall
    /\ ScrReturn(scr_add(scroller, Append(s, NL)), "scr_add", Append(s, NL))

NextFresh == \E s \in InputLines : AddLine(s)

SpecFresh == InitScroller /\ [][NextFresh]_vars

\* A typing session: the debugger writes one line in pieces, a letter, a tab,
\* a backspace or a carriage return; the line has at most MaxTyped cells.
MaxTyped == 9
TypeInputs == {<<97>>, <<TAB>>, <<BS>>, <<CR>>}

Type(buf) ==
    /\ ~crashed
    /\ Len(LastLine(scr_add(scroller, buf))) <= MaxTyped
    /\ ScrReturn(scr_add(scroller, buf), "scr_add", buf)

NextType == \E buf \in TypeInputs : Type(buf)

SpecType == InitScroller /\ [][NextType]_vars

\* An output session: texts with and without newlines, a backspace and a
\* carriage return.
LineInputs == {<<97>>, <<BS>>, <<CR>>, <<NL>>, <<98, NL, 97>>, <<NL, NL>>}

NextLines == \E buf \in LineInputs : ScrAdd(buf)

SpecLines == InitScroller /\ [][NextLines]_vars

(* --------------------------- properties -------------------------------- *)
\* How often n is an entry of the child array c.
Occurrences(c, n) == Cardinality({k \in 1..Len(c) : c[k] = n})

\* The splitters of the tree.
TreeSplitters(m) == {sp \in Reachable(m) : Live(m, sp) /\ m.win[sp].is_splitter}

\* The separator columns of a splitter: one between neighbours of a
\* vertical splitter, none in a horizontal one.
Separators(m, sp) ==
    IF m.win[sp].orientation = WM_VERTICAL THEN Len(m.win[sp].children) - 1 ELSE 0

\* A splitter's own dimension along its split axis.
OwnDimension(m, sp) ==
    IF m.win[sp].orientation = WM_HORIZONTAL THEN m.win[sp].real_height
    ELSE m.win[sp].real_width

RECURSIVE SumMinimums(_, _, _)
\* The sum of the minimum dimensions of the children from child i on.
SumMinimums(m, sp, i) ==
    IF i >= Len(m.win[sp].children) THEN 0
    ELSE wm_splitter_min_dimension(m, sp, Child(m.win[sp].children, i))
         + SumMinimums(m, sp, i + 1)

\* C1: after any sequence of split and close, every splitter of the tree has
\* at least two children, and every node but the root has a parent whose
\* child list holds it exactly once.
C1_TreeClosure ==
    ~crashed =>
        /\ \A sp \in TreeSplitters(Mem) : Len(win[sp].children) >= 2
        /\ \A n \in Ids :
              (Live(Mem, n) /\ n # wm.main_window) =>
                  /\ Live(Mem, win[n].parent)
                  /\ Occurrences(win[win[n].parent].children, n) = 1

\* C2: split(ci, new_pane, P.orientation) leaves P.children equal to
\* c0..ci, new_pane, c(i+1)..c(n-1).
C2_InsertAfterTarget ==
    \A window \in Ids, policy \in PanePolicies :
        LET P == win[window].parent
            c == win[P].children
            i == wm_splitter_find_child(Mem, P, window)
            r == wm_split(Mem, window, policy, win[P].orientation)
        IN (CanSplit(window) /\ Live(Mem, P) /\ i >= 0) =>
               r.win[P].children =
                   SubSeq(c, 1, i + 1) \o <<Malloc(Mem)>> \o SubSeq(c, i + 2, Len(c))

\* C3: split(ci, new_pane, orientation) with orientation # P.orientation
\* leaves P.children equal to the previous list with ci replaced at index i
\* by a new splitter S of that orientation, S.children = [ci, new_pane],
\* S.parent = P.
C3_SplitterTakesSlot ==
    \A window \in Ids, policy \in PanePolicies, orientation \in Orientations :
        LET P == win[window].parent
            c == win[P].children
            i == wm_splitter_find_child(Mem, P, window)
            r == wm_split(Mem, window, policy, orientation)
            S == r.win[window].parent
        IN (CanSplit(window) /\ Live(Mem, P) /\ i >= 0
            /\ orientation # win[P].orientation) =>
               /\ ~Live(Mem, S) /\ Live(r, S)
               /\ r.win[S].is_splitter
               /\ r.win[S].orientation = orientation
               /\ r.win[S].children = <<window, Malloc(Mem)>>
               /\ r.win[S].parent = P
               /\ r.win[P].children = [c EXCEPT ![i + 1] = S]

\* C4: after every completed split, close or layout, the dimensions of the
\* children of every splitter along its axis plus the separators add up to
\* the splitter's own dimension.
C4_AreaConserved ==
    ~crashed =>
        \A sp \in TreeSplitters(Mem) :
            SumDimensions(Mem, sp, 0) + Separators(Mem, sp) = OwnDimension(Mem, sp)

\* C5: after any sequence of split, close and focus, the focus handle is a
\* live leaf pane that is reachable from the root.
C5_FocusIsLeaf ==
    ~crashed =>
        /\ wm.focused_window \in Panes(Mem)
        /\ wm.focused_window \in Reachable(Mem)

\* C6: after any sequence of split and close, no splitter has the
\* orientation of its parent splitter.
C6_OrientationsAlternate ==
    ~crashed =>
        \A sp \in TreeSplitters(Mem) :
            \A k \in 1..Len(win[sp].children) :
                LET child == win[sp].children[k]
                IN (Live(Mem, child) /\ win[child].is_splitter) =>
                       win[child].orientation # win[sp].orientation

\* C7: when close(pane) leaves its splitter P with one child C and P has a
\* parent G, G.children is afterwards its previous list with C at the index
\* of P, C.parent = G, and P is no longer in the tree.
C7_CollapseReplaces ==
    \A window \in Ids :
        LET P == win[window].parent
            G == win[P].parent
            c == win[P].children
            C == IF c[1] = window THEN c[2] ELSE c[1]
            g == win[G].children
            r == wm_close(Mem, window)
        IN (CanClose(window) /\ Live(Mem, P) /\ Len(c) = 2
            /\ Occurrences(c, window) = 1 /\ Live(Mem, C) /\ Live(Mem, G)) =>
               /\ r.win[G].children = ReplaceFirst(g, P, C)
               /\ r.win[C].parent = G
               /\ P \notin Reachable(r)

\* C8: after layout, every child of a splitter whose available extent is at
\* least the sum of its children's minimum dimensions has at least its
\* minimum dimension along the split axis.
C8_MinimumsRespected ==
    ~crashed =>
        \A sp \in TreeSplitters(Mem) :
            (~DanglingChild(Mem, sp) /\ Available(Mem, sp) >= SumMinimums(Mem, sp, 0)) =>
                \A k \in 1..Len(win[sp].children) :
                    get_dimension(Mem, sp, win[sp].children[k])
                        >= wm_splitter_min_dimension(Mem, sp, win[sp].children[k])

\* The children of sp add up to its available extent and each has at least
\* its minimum dimension.
WellFilled(m, sp) ==
    /\ ~DanglingChild(m, sp)
    /\ Len(m.win[sp].children) >= 2
    /\ SumDimensions(m, sp, 0) = Available(m, sp)
    /\ \A k \in 1..Len(m.win[sp].children) :
          get_dimension(m, sp, m.win[sp].children[k])
              >= wm_splitter_min_dimension(m, sp, m.win[sp].children[k])

\* C9: in a splitter whose children add up to its available extent and have
\* their minimums, a successful resize(pane, orientation, new_size) on the
\* matching axis leaves pane with min(max(new_size, min_dimension(pane)), max),
\* max = splitter_dim - sum of the siblings' minimums - separators, and
\* leaves every sibling at least its minimum.
C9_ResizeClamps ==
    \A window \in Ids, size \in ResizeSizes :
        LET P == win[window].parent
            c == win[P].children
            r == wm_resize(Mem, window, win[P].orientation, size)
            max == OwnDimension(Mem, P) - Separators(Mem, P)
                   - (SumMinimums(Mem, P, 0)
                      - Occurrences(c, window) * wm_splitter_min_dimension(Mem, P, window))
        IN (CanResize(window) /\ Live(Mem, P) /\ WellFilled(Mem, P)
            /\ Occurrences(c, window) >= 1 /\ r.ret = 0) =>
               /\ get_dimension(r, P, window)
                     = Min(Max(size, wm_splitter_min_dimension(Mem, P, window)), max)
               /\ \A k \in 1..Len(c) :
                     get_dimension(r, P, c[k]) >= wm_splitter_min_dimension(r, P, c[k])

\* The nodes of the subtree of n.
Subtree(m, n) == Range(Visit(m, n, <<>>))

\* C10: resize(pane, axis, n) changes neither the sum of the dimensions of
\* the children of the containing splitter along the axis, nor the
\* splitter's own rectangle, nor the rectangle of a node outside the
\* splitter's subtree.
C10_ResizeFrame ==
    \A window \in Ids, dir \in Orientations, size \in ResizeSizes :
        LET P == win[window].parent
            r == wm_resize(Mem, window, dir, size)
        IN (CanResize(window) /\ Live(Mem, P) /\ ~DanglingChild(Mem, P)) =>
               /\ SumDimensions(r, P, 0) = SumDimensions(Mem, P, 0)
               /\ Rect(r, P) = Rect(Mem, P)
               /\ \A n \in Ids \ Subtree(Mem, P) :
                     Live(Mem, n) => Rect(r, n) = Rect(Mem, n)

\* C11: whenever wm_splitter_split or wm_splitter_resize_window returns an
\* error (target not found, append with the wrong orientation, orientation
\* mismatch on resize, splitter with a single child), the child lists, parent
\* links, rectangles and focus handle are as before the call.
C11_ErrorsLeaveTree ==
    ~crashed =>
        /\ \A window \in Ids, dir \in Orientations, size \in ResizeSizes :
              LET P == win[window].parent
                  r == wm_splitter_resize_window(Mem, P, window, dir, size)
              IN (CanResize(window) /\ Live(Mem, P) /\ r.ret # 0) =>
                     r.win = win /\ r.wm = wm
        /\ \A sp \in Ids, window \in Ids \cup {NULL}, policy \in PanePolicies,
              orientation \in Orientations :
              LET new_window == Malloc(Mem)
                  m1 == wm_window_init(Mem, new_window, policy)
                  r == wm_splitter_split(m1, sp, window, new_window, orientation)
              IN (Live(Mem, sp) /\ win[sp].is_splitter
                  /\ (window = NULL \/ Live(Mem, window))
                  /\ Cardinality(FreeIds(Mem)) >= 2 /\ r.ret # 0) =>
                     r.win = m1.win /\ r.wm = wm

\* A resize of a pane that is in no child list has returned an error.
C11_Witness ==
    /\ ~crashed /\ last.op = "resize" /\ last.branch = "not_found" /\ last.ret # 0
    /\ \E sp \in Ids, orientation \in Orientations :
          /\ Live(Mem, sp) /\ win[sp].is_splitter
          /\ Cardinality(FreeIds(Mem)) >= 2
          /\ wm_splitter_split(Mem, sp, NULL, Malloc(Mem), orientation).ret # 0

\* C12: resize(pane, orientation, new_size) on a splitter that does not hold
\* pane as a child returns an error for every new_size, and close(pane) on a
\* splitter that does not hold pane returns an error.
C12_NotFoundReported ==
    ~crashed =>
        \A sp \in Ids, window \in Ids :
            (Live(Mem, sp) /\ win[sp].is_splitter /\ ~DanglingChild(Mem, sp)
             /\ Live(Mem, window) /\ wm_splitter_find_child(Mem, sp, window) < 0) =>
                /\ \A dir \in Orientations, size \in ResizeSizes :
                      wm_splitter_resize_window(Mem, sp, window, dir, size).ret # 0
                /\ LET r == wm_splitter_remove(Mem, sp, window)
                   IN r.ret # 0 \/ r.abort

\* C13: when close(pane) removes the focused pane, at index i, from a
\* splitter that had three or more children, the focus moves to the child
\* that is at index i after the removal, or to the child at index i - 1 if
\* pane was the last child.
C13_FocusFollowsSlot ==
    \A window \in Ids :
        LET P == win[window].parent
            c == win[P].children
            i == wm_splitter_find_child(Mem, P, window)
            r == wm_close(Mem, window)
        IN (CanClose(window) /\ Live(Mem, P) /\ ~DanglingChild(Mem, P)
            /\ Len(c) >= 3 /\ i >= 0 /\ wm_is_focused(Mem, window)) =>
               r.wm.focused_window =
                   (IF i = Len(c) - 1 THEN Child(c, i - 1) ELSE Child(c, i + 1))

RECURSIVE Ancestry(_, _, _)
\* n and its ancestors, nearest first, following at most fuel parent links.
Ancestry(m, n, fuel) ==
    IF n = NULL \/ fuel = 0 THEN <<>>
    ELSE <<n>> \o Ancestry(m, m.win[n].parent, fuel - 1)

\* The orientation of the splitters that divide along the axis of dir.
AxisOf(dir) == IF dir \in {WM_UP, WM_DOWN} THEN WM_HORIZONTAL ELSE WM_VERTICAL

\* Every node on the way up from n is a live child of the next one.
PathInTree(m, n) ==
    LET path == Ancestry(m, n, MaxNodes)
    IN /\ \A k \in 1..Len(path) : Live(m, path[k])
       /\ \A k \in 2..Len(path) : path[k - 1] \in Range(m.win[path[k]].children)

\* The sibling before (Up, Left) or after (Down, Right) the child on the way
\* to the focused pane, in the nearest ancestor that divides along the axis
\* of dir; NULL when there is no such ancestor or no such sibling.
ExpectedSibling(m, dir) ==
    LET path == Ancestry(m, m.wm.focused_window, MaxNodes)
        K == {k \in 2..Len(path) : m.win[path[k]].orientation = AxisOf(dir)}
    IN IF K = {} THEN NULL
       ELSE LET k == CHOOSE x \in K : \A y \in K : x <= y
                c == m.win[path[k]].children
                i == CHOOSE x \in 0..(Len(c) - 1) :
                         /\ Child(c, x) = path[k - 1]
                         /\ \A y \in 0..(x - 1) : Child(c, y) # path[k - 1]
            IN IF dir \in {WM_UP, WM_LEFT}
               THEN IF i = 0 THEN NULL ELSE Child(c, i - 1)
               ELSE IF i = Len(c) - 1 THEN NULL ELSE Child(c, i + 1)

\* C14: focus_neighbor(dir, cursor_pos) selects, in the nearest ancestor
\* splitter S of the focused pane that is aligned with dir, the sibling just
\* before (Up, Left) or just after (Down, Right) the child of S on the way to
\* the focused pane, and descends into it when it is a splitter; it returns
\* null when no aligned ancestor exists or that child is the first (Up, Left)
\* or the last (Down, Right) child of S.
C14_NeighborSibling ==
    \A dir \in Directions :
        (CanNeighbor /\ PathInTree(Mem, wm.focused_window)) =>
            \A cursor_pos \in CursorsIn(Mem, wm.focused_window) :
                LET X == ExpectedSibling(Mem, dir)
                IN wm_focus_neighbor(Mem, dir, cursor_pos) =
                       (IF X = NULL THEN NULL
                        ELSE IF win[X].is_splitter
                        THEN wm_splitter_find_window_at(Mem, X, cursor_pos)
                        ELSE X)

\* A lookup has gone up past a splitter of the other orientation and found a
\* sibling, and in the same tree another direction has no neighbour.
C14_Witness ==
    /\ ~crashed /\ last.op = "neighbor" /\ last.ret # NULL
    /\ PathInTree(Mem, wm.focused_window)
    /\ win[win[wm.focused_window].parent].orientation # AxisOf(last.branch)
    /\ \E dir \in Directions : ExpectedSibling(Mem, dir) = NULL

\* The cells of the screen.
ScreenCells == (0..(ScreenHeight - 1)) \X (0..(ScreenWidth - 1))

\* C15: when the sibling chosen by focus_neighbor is a splitter, the result
\* is a leaf pane of that sibling's subtree, never null and never a splitter,
\* for every cursor_pos on the screen.
C15_DescentFindsPane ==
    \A dir \in Directions, cursor_pos \in ScreenCells :
        LET X == ExpectedSibling(Mem, dir)
            r == wm_focus_neighbor(Mem, dir, cursor_pos)
        IN (CanNeighbor /\ PathInTree(Mem, wm.focused_window)
            /\ ~TreeDangling(Mem) /\ X # NULL /\ win[X].is_splitter) =>
               /\ r \in Panes(Mem)
               /\ r \in Subtree(Mem, X)

\* The canvas handles the live windows hold.
HeldCanvases(m) == {m.win[n].cwindow : n \in {x \in Ids : Live(m, x)}}

\* C16: after any sequence of split and close, no two live nodes hold the
\* same canvas handle and no destroyed node holds one; a split into a new
\* intermediate splitter moves the target's canvas to the splitter and gives
\* the target a fresh one; a collapse moves the splitter's canvas to the
\* surviving child and leaves the destroyed splitter holding none.
C16_CanvasesExclusive ==
    ~crashed =>
        /\ \A n1, n2 \in Ids :
              (Live(Mem, n1) /\ Live(Mem, n2) /\ n1 # n2) =>
                  win[n1].cwindow # win[n2].cwindow
        /\ \A n \in Ids : Live(Mem, n) <=> win[n].cwindow # NULL
        /\ \A window \in Ids, policy \in PanePolicies, orientation \in Orientations :
              LET P == win[window].parent
                  r == wm_split(Mem, window, policy, orientation)
                  S == r.win[window].parent
              IN (CanSplit(window) /\ r.ret = 0
                  /\ (P = NULL \/ orientation # win[P].orientation)) =>
                     /\ r.win[S].cwindow = win[window].cwindow
                     /\ r.win[window].cwindow \notin HeldCanvases(Mem)
                     /\ r.win[window].cwindow # NULL
        /\ \A window \in Ids :
              LET P == win[window].parent
                  c == win[P].children
                  C == IF c[1] = window THEN c[2] ELSE c[1]
                  r == wm_close(Mem, window)
              IN (CanClose(window) /\ Live(Mem, P) /\ Len(c) = 2
                  /\ Occurrences(c, window) = 1 /\ Live(Mem, C)) =>
                     /\ r.win[C].cwindow = win[P].cwindow
                     /\ r.win[P].cwindow = NULL

\* A splitter has collapsed into its parent, and a split into a new
\* intermediate splitter is possible in the tree that is left.
C16_Witness ==
    /\ ~crashed /\ last.op = "close" /\ last.branch = "collapse" /\ last.ret = 0
    /\ \E window \in Ids, orientation \in Orientations :
          /\ CanSplit(window) /\ win[window].parent # NULL
          /\ orientation # win[win[window].parent].orientation

(* ----------------------- scroller properties --------------------------- *)
\* C17: after any sequence of new, add_text, scroll_up, scroll_down,
\* scroll_home, scroll_end, resize and render, lines is non-empty,
\* 0 <= row < len(lines), and col is a non-negative multiple of the current
\* canvas width.
C17_ScrollerInvariant ==
    ~crashed =>
        /\ Len(scroller.buffer) >= 1
        /\ scroller.current.r >= 0
        /\ scroller.current.r < Len(scroller.buffer)
        /\ scroller.current.c >= 0
        /\ scroller.current.c % scroller.win.width = 0

\* C18: render(focused) leaves the lines, row, col and pos as they were, for
\* every buffer and every viewport position whose col is a multiple of the
\* width.
C18_RenderKeepsState ==
    \A focus \in BOOLEAN :
        LET r == scr_refresh(scroller, focus)
        IN (~crashed /\ scroller.current.c % scroller.win.width = 0) =>
               /\ r.buffer = scroller.buffer
               /\ r.current = scroller.current

RECURSIVE DownUntilFixed(_, _)
\* scroll_down(1) repeated until it changes nothing (at most fuel times).
DownUntilFixed(scr, fuel) ==
    LET next == scr_down(scr, 1)
    IN IF next = scr \/ fuel = 0 THEN scr ELSE DownUntilFixed(next, fuel - 1)

\* C19: scroll_home followed by scroll_down(1) steps until they change
\* nothing yields the (row, col) of scroll_end, also when the length of the
\* last line is a positive multiple of the width.
C19_HomeDownIsEnd ==
    ~crashed =>
        LET walked == DownUntilFixed(scr_home(scroller), MaxLines * (MaxLineLen + 1))
            jumped == scr_end(scroller)
        IN /\ walked.current.r = jumped.current.r
           /\ walked.current.c = jumped.current.c

\* The cell at 0-based index pos of line becomes b; the line grows by one
\* cell when pos is its end.
WriteCell(line, pos, b) ==
    IF pos < Len(line) THEN [line EXCEPT ![pos + 1] = b] ELSE Append(line, b)

RECURSIVE Interpret(_, _, _)
\* The character interpreter, byte by byte: [line, pos] after the bytes of s.
Interpret(line, pos, s) ==
    IF s = <<>> THEN [line |-> line, pos |-> pos]
    ELSE
      LET b == Head(s)
          rest == Tail(s)
          stop == ((pos \div 8) + 1) * 8
      IN IF b \in {8, 127}
         THEN Interpret(line, IF pos > 0 THEN pos - 1 ELSE pos, rest)
         ELSE IF b = 9
         THEN Interpret([k \in 1..Max(Len(line), stop) |->
                            IF k > pos /\ k <= stop THEN 32 ELSE line[k]],
                        stop, rest)
         ELSE IF b = 13 THEN Interpret(line, 0, rest)
         ELSE IF b >= 32 /\ b <= 126
         THEN Interpret(WriteCell(line, pos, b), pos + 1, rest)
         ELSE Interpret(line, pos, rest)

RECURSIVE Stripped(_, _)
\* line without its trailing white space at 0-based indices >= keep.
Stripped(line, keep) ==
    IF Len(line) > keep /\ line[Len(line)] \in {9, 10, 11, 12, 13, 32}
    THEN Stripped(SubSeq(line, 1, Len(line) - 1), keep)
    ELSE line

C29_CaretInsideLine ==
    ~crashed =>
        /\ scroller.current.pos >= 0
        /\ scroller.current.pos <= Len(LastLine(scroller))
        /\ \A seg \in InputLines :
               LET st == Expand(scroller.current.pos, LastLine(scroller), seg)
               IN /\ ~st.ub
                  /\ \A k \in 1..Len(st.rv) : st.rv[k] # 0 => k <= strlen(st.rv)

\* Text was added after a newline left the caret at the start of a new line,
\* and a backspace has moved the caret back inside the line.
C29_Witness ==
    /\ ~crashed /\ last.op = "scr_add" /\ input = <<BS>>
    /\ Len(scroller.buffer) > 1
    /\ scroller.current.pos < Len(LastLine(scroller))

RECURSIVE SplitLines(_)
\* The newline-free pieces of buf, in order: one more than its newlines.
SplitLines(buf) ==
    IF \A k \in 1..Len(buf) : buf[k] # 10 THEN <<buf>>
    ELSE LET k == CHOOSE i \in 1..Len(buf) :
                      buf[i] = 10 /\ \A x \in 1..(i - 1) : buf[x] # 10
         IN <<SubSeq(buf, 1, k - 1)>> \o SplitLines(SubSeq(buf, k + 1, Len(buf)))

\* The texts of the sessions, with and without newlines.
Texts == AddInputs \cup LineInputs

\* The scroller after each operation other than add_text.
OtherOutcomes ==
    {scr_up(scroller, n) : n \in 1..MaxScroll}
        \cup {scr_down(scroller, n) : n \in 1..MaxScroll}
        \cup {scr_home(scroller), scr_end(scroller)}
        \cup {scr_move(scroller, w[1], w[2]) : w \in ScrWindows}
        \cup {scr_refresh(scroller, focus) : focus \in BOOLEAN}

\* C22: add_text(bytes) increases the number of buffer lines by exactly the
\* number of newline bytes in bytes, leaves every line other than the
\* previously last line unchanged, and sets pos to 0 at the start of each
\* newly created line (each new line and the final caret are those of its
\* piece interpreted from an empty line at pos 0); the line count never
\* decreases under any operation.
C22_AddAppendsLines ==
    ~crashed =>
        /\ \A buf \in Texts :
              LET after == scr_add(scroller, buf)
                  n == Len(scroller.buffer)
                  pieces == SplitLines(buf)
              IN /\ Len(after.buffer) = n + Cardinality({k \in 1..Len(buf) : buf[k] = 10})
                 /\ \A k \in 1..(n - 1) : after.buffer[k] = scroller.buffer[k]
                 /\ \A j \in 2..Len(pieces) :
                       LET t == Interpret(<<>>, 0, pieces[j])
                       IN /\ after.buffer[n + j - 1] = Stripped(t.line, t.pos + 1)
                          /\ j = Len(pieces) => after.current.pos = t.pos
        /\ \A o \in OtherOutcomes : Len(o.buffer) >= Len(scroller.buffer)

\* A newline has been added below a line that holds text, and the buffer has
\* three lines.
C22_Witness ==
    /\ ~crashed /\ last.op = "scr_add" /\ input = <<10>>
    /\ Len(scroller.buffer) = 3
    /\ scroller.buffer[1] # <<>>
    /\ scroller.current.pos = 0

\* max(1, ceil(length / width)): the visual rows of a line of that length.
VisualRows(length, width) == Max(1, (length + width - 1) \div width)

\* The visual rows of all the lines of the buffer.
TotalRows(scr) ==
    SumSeq([k \in 1..Len(scr.buffer) |-> VisualRows(Len(scr.buffer[k]), scr.win.width)])

\* scroll_up(n) ends at (0, 0) and a further scroll_up changes nothing.
UpReachesTop(scr, n) ==
    LET u == scr_up(scr, n)
    IN /\ u.current.r = 0 /\ u.current.c = 0
       /\ scr_up(u, 1) = u

\* scroll_down(n) ends on the last visual row of the last line and a further
\* scroll_down changes nothing.
DownReachesBottom(scr, n) ==
    LET d == scr_down(scr, n)
        W == scr.win.width
    IN /\ d.current.r = Len(scr.buffer) - 1
       /\ d.current.c = (VisualRows(Len(LastLine(scr)), W) - 1) * W
       /\ scr_down(d, 1) = d

\* C23: from any viewport position, scroll_down(n) with n at least the total
\* number of visual rows ends with row = len(lines) - 1 and
\* col = (max(1, ceil(len(last line)/W)) - 1) * W, and a further scroll_down
\* changes nothing; scroll_up(n) with n at least the total number of visual
\* rows ends at (row, col) = (0, 0), and a further scroll_up changes nothing.
C23_ScrollReachesEnds ==
    ~crashed =>
        \A extra \in 0..1 :
            /\ DownReachesBottom(scroller, TotalRows(scroller) + extra)
            /\ UpReachesTop(scroller, TotalRows(scroller) + extra)

RECURSIVE DigitsEnd(_, _)
\* The index after the decimal digits that start at index i of line.
DigitsEnd(line, i) ==
    IF i < Len(line) /\ line[i + 1] \in 48..57 THEN DigitsEnd(line, i + 1) ELSE i

\* The index after the sequence '[' n1 (';' n2)? 'm' that starts at index cur
\* of line, or -1 when none starts there.
SgrEnd(line, cur) ==
    LET a == DigitsEnd(line, cur + 1)
        b == DigitsEnd(line, a + 1)
    IN IF At(line, cur) # 91 \/ a = cur + 1 THEN -1
       ELSE IF At(line, a) = 109 THEN a + 1
       ELSE IF At(line, a) = 59 /\ b > a + 1 /\ At(line, b) = 109 THEN b + 1
       ELSE -1

RECURSIVE PlainCells(_, _)
\* The characters of line from index cur on that are not part of such a
\* sequence.
PlainCells(line, cur) ==
    IF cur >= Len(line) THEN 0
    ELSE IF SgrEnd(line, cur) >= 0 THEN PlainCells(line, SgrEnd(line, cur))
    ELSE 1 + PlainCells(line, cur + 1)

\* Texts of brackets, digits, semicolons, the letter m and another letter.
EscapeTexts == UNION {[1..n -> {91, 49, 59, 109, 97}] : n \in 1..MaxInput}

\* C24: for every line and width W >= 1, the visual height used by render
\* equals max(1, ceil(L/W)), where L is the number of characters of the line
\* that are not part of a recognized escape sequence '[' n1 (';' n2)? 'm'; a
\* '[' that does not start such a sequence counts as one cell.  The lines are
\* those add_text leaves when it appends a text to the last line.
C24_HeightIsCeiling ==
    ~crashed =>
        \A text \in EscapeTexts : \A W \in 1..(scroller.win.width) :
            LET line == LastLine(scr_add(scroller, text))
            IN get_line_height(line, W) = VisualRows(PlainCells(line, 0), W)

\* The scroller after each scroll operation.
ScrollOutcomes ==
    {scr_up(scroller, n) : n \in 1..MaxScroll}
        \cup {scr_down(scroller, n) : n \in 1..MaxScroll}
        \cup {scr_home(scroller), scr_end(scroller)}

\* C25: scroll_up, scroll_down, scroll_home, scroll_end and the scroller's
\* resize never change the lines sequence or the caret pos; resize
\* additionally leaves row unchanged.
C25_ScrollKeepsText ==
    ~crashed =>
        /\ \A o \in ScrollOutcomes :
               o.buffer = scroller.buffer /\ o.current.pos = scroller.current.pos
        /\ \A w \in ScrWindows :
               LET o == scr_move(scroller, w[1], w[2])
               IN /\ o.buffer = scroller.buffer
                  /\ o.current.pos = scroller.current.pos
                  /\ o.current.r = scroller.current.r

\* The scroller was moved to a window of another width while its viewport
\* was below the first of several lines and the caret inside a line.
C25_Witness ==
    /\ ~crashed /\ last.op = "scr_move"
    /\ Len(scroller.buffer) > 1
    /\ scroller.current.r > 0
    /\ scroller.current.pos > 0
    /\ scroller.win.width = 3 /\ scroller.current.c = 2

\* C28: in every state reachable by new, add_text, scroll_*, resize and
\* render, the viewport column satisfies col <= length(lines[row]), so the
\* offset lines[row] + col read by render when deciding whether to show the
\* caret is inside the line.
C28_ColumnInsideLine ==
    ~crashed =>
        scroller.current.c <= Len(scroller.buffer[scroller.current.r + 1])

(* ------------------------ resize properties ---------------------------- *)
\* The children of sp are contiguous: the first starts at the origin of sp
\* and each other one where the one before ends, one cell further in a
\* vertical splitter.
Contiguous(m, sp) ==
    LET c == m.win[sp].children
        gap == IF m.win[sp].orientation = WM_VERTICAL THEN 1 ELSE 0
    IN /\ Len(c) >= 1
       /\ \A k \in 1..Len(c) : Live(m, c[k])
       /\ get_position(m, sp, c[1]) = get_position(m, sp, sp)
       /\ \A k \in 2..Len(c) :
              get_position(m, sp, c[k])
                  = get_position(m, sp, c[k - 1]) + get_dimension(m, sp, c[k - 1]) + gap

\* C26: if the children of a splitter are contiguous before resize, they are
\* contiguous after every successful resize, for shrink and grow, for a pane
\* in first, middle or last position.
C26_ResizeKeepsContiguity ==
    ~crashed =>
        \A window \in Ids, dir \in Orientations, size \in ResizeSizes :
            LET P == win[window].parent
                r == wm_splitter_resize_window(Mem, P, window, dir, size)
            IN (CanResize(window) /\ Live(Mem, P) /\ Contiguous(Mem, P) /\ r.ret = 0) =>
                   Contiguous(r, P)

\* C27: when resize grows a pane (delta > 0), space is taken from successors
\* in order and only then from predecessors in reverse order: a successor at
\* index j+1 shrinks only if the successor at index j ends at its minimum, and
\* any predecessor shrinks only if every successor ends at its minimum (a
\* predecessor at index j-1 only if the predecessor at index j ends at its
\* minimum); each donor gives at most its dimension minus its minimum.
C27_BorrowOrder ==
    ~crashed =>
        \A window \in Ids, dir \in Orientations, size \in ResizeSizes :
            LET P == win[window].parent
                r == wm_splitter_resize_window(Mem, P, window, dir, size)
                c == win[P].children
                i == wm_splitter_find_child(Mem, P, window)
                before(k) == get_dimension(Mem, P, c[k + 1])
                after(k) == get_dimension(r, P, c[k + 1])
                least(k) == wm_splitter_min_dimension(Mem, P, c[k + 1])
                shrinks(k) == after(k) < before(k)
                n == Len(c)
            IN (/\ CanResize(window) /\ Live(Mem, P) /\ ~DanglingChild(Mem, P)
                /\ r.ret = 0 /\ i >= 0
                /\ ClampSize(Mem, P, window, size) > get_dimension(Mem, P, window)) =>
                   /\ \A j \in (i + 1)..(n - 2) : shrinks(j + 1) => after(j) = least(j)
                   /\ \A q \in 0..(i - 1) :
                         shrinks(q) => \A j \in (i + 1)..(n - 1) : after(j) = least(j)
                   /\ \A q \in 1..(i - 1) : shrinks(q - 1) => after(q) = least(q)
                   /\ \A k \in 0..(n - 1) :
                         k # i => before(k) - after(k) <= before(k) - least(k)

====
